---- MODULE Spec2Model ----
(***************************************************************************)
(* BestellDesk (src/app.py): a Flask application over three MongoDB        *)
(* collections (bestellungen, lieferanten, einstellungen) with a           *)
(* session-gated admin panel.  Every route handler is one action; the      *)
(* store calls of lieferant_aktivieren are additionally available as       *)
(* separate steps of an in-flight request, for the concurrent              *)
(* specification.                                                          *)
(***************************************************************************)
EXTENDS Integers, Sequences, FiniteSets, TLC

VARIABLES
    bestellungen,   \* collection db["bestellungen"]: _id -> document
    lieferanten,    \* collection db["lieferanten"]:  _id -> document
    einstellungen,  \* collection db["einstellungen"]: typ -> document
    session,        \* Flask session of each client: the logged_in flag
    zaehler,        \* number of _id values the store has issued per collection
    uhr,            \* wall clock read by datetime.now(), in seconds of the day
    laufend,        \* lieferant_aktivieren requests in flight, per worker
    anfrage,        \* the request handled last
    antwort,        \* its response
    vorher_aktiv    \* suppliers with aktiv=true when the last activation request arrived

vars == <<bestellungen, lieferanten, einstellungen, session, zaehler, uhr,
          laufend, anfrage, antwort, vorher_aktiv>>

store == <<bestellungen, lieferanten, einstellungen>>

(***************************************************************************)
(* Bounds of the model.                                                    *)
(***************************************************************************)
MaxLieferanten == 2     \* _id values the lieferanten collection can issue
MaxBestellungen == 1    \* _id values the bestellungen collection can issue
MaxGerichte == 2        \* longest dish list a request carries

Sessions == {"s1", "s2"}
Worker == {"w1", "w2"}
LieferantIds == 1..MaxLieferanten
BestellIds == 1..MaxBestellungen

\* Python's None, for string-valued fields and for an ObjectId reference.
None == "None"
KeinLieferant == 0

(***************************************************************************)
(* Store primitives (pymongo calls on a collection held as a function).    *)
(***************************************************************************)
Ohne(coll, id) == [k \in DOMAIN coll \ {id} |-> coll[k]]

\* lieferanten.find_one({"aktiv": True}): the first matching document's _id.
find_one_aktiv(L) ==
    IF \E i \in DOMAIN L : L[i].aktiv
    THEN CHOOSE i \in DOMAIN L : L[i].aktiv /\ \A j \in DOMAIN L : L[j].aktiv => i <= j
    ELSE KeinLieferant

AktiveLieferanten(L) == {i \in DOMAIN L : L[i].aktiv}

\* lieferanten.update_many({}, {"$set": {"aktiv": False}})
update_many_aktiv_false(L) == [i \in DOMAIN L |-> [L[i] EXCEPT !.aktiv = FALSE]]

\* lieferanten.update_one({"_id": id}, {"$set": {"aktiv": True}}): no match, no change.
update_one_aktiv_true(L, id) ==
    IF id \in DOMAIN L THEN [L EXCEPT ![id].aktiv = TRUE] ELSE L

\* einstellungen.update_one({"typ": typ}, {"$set": felder}, upsert=True)
upsert(E, typ, doc) ==
    IF typ \in DOMAIN E THEN [E EXCEPT ![typ] = doc] ELSE E @@ (typ :> doc)

(***************************************************************************)
(* Requests and responses.                                                 *)
(***************************************************************************)
\* now: what datetime.now() returned to the handler, for the one handler
\* that reads the clock.
Anfrage(route, methode, s, ziel) ==
    [route |-> route, methode |-> methode, sitzung |-> s, ziel |-> ziel,
     benutzer |-> None, passwort |-> None, now |-> 0]

Antwort(status, ort) == [status |-> status, ort |-> ort, bestellbar |-> TRUE]

\* redirect(url_for("admin_login")): what every gated handler returns first
\* when session.get("logged_in") is not set.
ZumLogin == Antwort(302, "admin_login")

\* A gate that lets every caller through.
logged_in_immer(s) == TRUE

\* session.get("logged_in")
logged_in(s) == session[s]

Abgewiesen(route, methode, s, ziel) ==
    /\ ~logged_in(s)
    /\ anfrage' = Anfrage(route, methode, s, ziel)
    /\ antwort' = ZumLogin
    /\ UNCHANGED <<store, session, zaehler, uhr, laufend, vorher_aktiv>>

(***************************************************************************)
(* Session/Auth gate.                                                      *)
(***************************************************************************)
Benutzer == {"admin", "root"}
Passwoerter == {"geheim", "falsch"}

\* A login that compares the user name only.
admin_login_ohne_passwort(s, methode, benutzer, passwort) ==
    /\ methode = "GET" => benutzer = None /\ passwort = None
    /\ anfrage' = [Anfrage("admin_login", methode, s, 0) EXCEPT
                      !.benutzer = benutzer, !.passwort = passwort]
    /\ IF methode = "POST" /\ benutzer = "admin"
       THEN /\ session' = [session EXCEPT ![s] = TRUE]
            /\ antwort' = Antwort(302, "admin_login")
       ELSE /\ session' = session
            /\ antwort' = Antwort(200, IF methode = "POST" THEN "admin.html fehler"
                                                           ELSE "admin.html")
    /\ UNCHANGED <<store, zaehler, uhr, laufend, vorher_aktiv>>

\* GET carries no form; request.form.get returns None for a field not posted.
admin_login(s, methode, benutzer, passwort) ==
    /\ methode = "GET" => benutzer = None /\ passwort = None
    /\ anfrage' = [Anfrage("admin_login", methode, s, 0) EXCEPT
                      !.benutzer = benutzer, !.passwort = passwort]
    /\ IF methode = "POST" /\ benutzer = "admin" /\ passwort = "geheim"
       THEN /\ session' = [session EXCEPT ![s] = TRUE]
            /\ antwort' = Antwort(302, "admin_login")
       ELSE /\ session' = session
            /\ antwort' = Antwort(200, IF methode = "POST" THEN "admin.html fehler"
                                                           ELSE "admin.html")
    /\ UNCHANGED <<store, zaehler, uhr, laufend, vorher_aktiv>>

admin_logout(s) ==
    /\ anfrage' = Anfrage("admin_logout", "GET", s, 0)
    /\ session' = [session EXCEPT ![s] = FALSE]
    /\ antwort' = Antwort(302, "admin_login")
    /\ UNCHANGED <<store, zaehler, uhr, laufend, vorher_aktiv>>

(***************************************************************************)
(* Order service.  A dish is held as the set of keys its document has; a   *)
(* payment as the record the handler builds.                               *)
(***************************************************************************)
GerichtVoll == {"nr", "name", "preis"}
GerichtOhnePreis == {"nr", "name"}
GerichtAusFormular == {"nr", "name", "preis", "schaerfegrad", "notiz"}
GerichtEingaben == {GerichtVoll, GerichtOhnePreis}

Listen(S, n) == UNION {[1..k -> S] : k \in 0..n}

\* Python truthiness: None and "" are falsy, so is the empty list.
not_str(x) == x = None \/ x = ""
not_list(x) == x = <<>>

\* POST /api/bestellung.  hat_daten: request.get_json() is a non-empty dict.
bestellung_absenden(s, hat_daten, name, gerichte) ==
    /\ anfrage' = Anfrage("bestellung_absenden", "POST", s, 0)
    /\ IF ~hat_daten
       THEN /\ antwort' = Antwort(400, "no data")
            /\ UNCHANGED <<bestellungen, zaehler>>
       ELSE IF not_str(name) \/ not_list(gerichte)
       THEN /\ antwort' = Antwort(400, "missing name or gerichte")
            /\ UNCHANGED <<bestellungen, zaehler>>
       ELSE /\ zaehler.bestellungen < MaxBestellungen
            /\ LET id == zaehler.bestellungen + 1
               IN  /\ bestellungen' = bestellungen @@
                          (id :> [name |-> name, gerichte |-> gerichte,
                                  lieferant_id |-> find_one_aktiv(lieferanten),
                                  zahlung |-> <<>>])
                   /\ zaehler' = [zaehler EXCEPT !.bestellungen = id]
            /\ antwort' = Antwort(200, "ok")
    /\ UNCHANGED <<lieferanten, einstellungen, session, uhr, laufend, vorher_aktiv>>

\* GET /admin/bestellungen: reads the collection, derives sums on its own copy.
admin_bestellungen(s) ==
    \/ Abgewiesen("admin_bestellungen", "GET", s, 0)
    \/ /\ logged_in(s)
       /\ anfrage' = Anfrage("admin_bestellungen", "GET", s, 0)
       /\ antwort' = Antwort(200, "admin_bestellungen.html")
       /\ UNCHANGED <<store, session, zaehler, uhr, laufend, vorher_aktiv>>

bestellung_loeschen(s, bestell_id) ==
    \/ Abgewiesen("bestellung_loeschen", "POST", s, bestell_id)
    \/ /\ logged_in(s)
       /\ anfrage' = Anfrage("bestellung_loeschen", "POST", s, bestell_id)
       /\ bestellungen' = Ohne(bestellungen, bestell_id)
       /\ antwort' = Antwort(302, "admin_bestellungen")
       /\ UNCHANGED <<lieferanten, einstellungen, session, zaehler, uhr, laufend, vorher_aktiv>>

bestellungen_loeschen_alle(s) ==
    \/ Abgewiesen("bestellungen_loeschen_alle", "POST", s, 0)
    \/ /\ logged_in(s)
       /\ anfrage' = Anfrage("bestellungen_loeschen_alle", "POST", s, 0)
       /\ bestellungen' = <<>>
       /\ antwort' = Antwort(302, "admin_bestellungen")
       /\ UNCHANGED <<lieferanten, einstellungen, session, zaehler, uhr, laufend, vorher_aktiv>>

\* The form of bestellung_bearbeiten, field group by field group: a group
\* "ok" has gericht_i_name and a preis float() accepts, "preis_ungueltig" has
\* the name but a preis float() raises on, "ohne_name" lacks gericht_i_name.
FormularGruppen == {"ok", "preis_ungueltig", "ohne_name"}

\* The while loop of lines 150-162: stops at the first group without a name.
RECURSIVE gerichte_aus_formular(_, _)
gerichte_aus_formular(form, i) ==
    IF i > Len(form) \/ form[i] = "ohne_name" THEN [fehler |-> FALSE, gerichte |-> <<>>]
    ELSE IF form[i] = "preis_ungueltig" THEN [fehler |-> TRUE, gerichte |-> <<>>]
    ELSE LET rest == gerichte_aus_formular(form, i + 1)
         IN  [fehler |-> rest.fehler,
              gerichte |-> IF rest.fehler THEN <<>> ELSE <<GerichtAusFormular>> \o rest.gerichte]

bestellung_bearbeiten(s, methode, bestell_id, name, form) ==
    \/ Abgewiesen("bestellung_bearbeiten", methode, s, bestell_id)
    \/ /\ logged_in(s)
       /\ anfrage' = Anfrage("bestellung_bearbeiten", methode, s, bestell_id)
       /\ IF bestell_id \notin DOMAIN bestellungen
          THEN /\ antwort' = Antwort(404, "Bestellung nicht gefunden")
               /\ UNCHANGED bestellungen
          ELSE IF methode = "GET"
          THEN /\ antwort' = Antwort(200, "admin_bearbeiten.html")
               /\ UNCHANGED bestellungen
          ELSE LET g == gerichte_aus_formular(form, 1)
               IN  IF g.fehler
                   THEN /\ antwort' = Antwort(500, "ValueError")
                        /\ UNCHANGED bestellungen
                   ELSE /\ bestellungen' = [bestellungen EXCEPT
                               ![bestell_id].name = name,
                               ![bestell_id].gerichte = g.gerichte]
                        /\ antwort' = Antwort(302, "admin_bestellungen")
       /\ UNCHANGED <<lieferanten, einstellungen, session, zaehler, uhr, laufend, vorher_aktiv>>

\* betrag_raw after replace(",", ".").strip(), then float() with the
\* ValueError fallback; amounts in cents.
BetragEingaben == {"10,50", "abc"}
betrag_parse(betrag_raw) ==
    CASE betrag_raw = "10,50" -> 1050
      [] betrag_raw = "" -> 0
      [] OTHER -> 0

bestellung_zahlung_speichern(s, bestell_id, erhalten, betrag_raw, rueckgeld_gegeben) ==
    \/ Abgewiesen("bestellung_zahlung_speichern", "POST", s, bestell_id)
    \/ /\ logged_in(s)
       /\ anfrage' = Anfrage("bestellung_zahlung_speichern", "POST", s, bestell_id)
       /\ bestellungen' =
              IF bestell_id \in DOMAIN bestellungen
              THEN [bestellungen EXCEPT ![bestell_id].zahlung =
                        <<erhalten = "on", betrag_parse(betrag_raw), rueckgeld_gegeben = "on">>]
              ELSE bestellungen
       /\ antwort' = Antwort(302, "admin_bestellungen")
       /\ UNCHANGED <<lieferanten, einstellungen, session, zaehler, uhr, laufend, vorher_aktiv>>

(***************************************************************************)
(* Supplier service.  A supplier document is held by the two fields the    *)
(* handlers read back, whatsapp_nummer and aktiv; name, versand_pro_person,*)
(* menu_typ and menu_info are written and only rendered.                   *)
(***************************************************************************)
Nummern == {"0151", "0170"}

\* GET|POST /admin/lieferanten.  versand_ok: float(request.form.get("versand", 0))
\* returns; otherwise it raises and nothing is stored.
admin_lieferanten(s, methode, versand_ok, whatsapp) ==
    \/ Abgewiesen("admin_lieferanten", methode, s, 0)
    \/ /\ logged_in(s)
       /\ anfrage' = Anfrage("admin_lieferanten", methode, s, 0)
       /\ IF methode = "GET"
          THEN /\ antwort' = Antwort(200, "admin_lieferanten.html")
               /\ UNCHANGED <<lieferanten, zaehler>>
          ELSE IF ~versand_ok
          THEN /\ antwort' = Antwort(500, "ValueError")
               /\ UNCHANGED <<lieferanten, zaehler>>
          ELSE /\ zaehler.lieferanten < MaxLieferanten
               /\ LET id == zaehler.lieferanten + 1
                  IN  /\ lieferanten' = lieferanten @@
                             (id :> [whatsapp_nummer |-> whatsapp, aktiv |-> FALSE])
                      /\ zaehler' = [zaehler EXCEPT !.lieferanten = id]
               /\ antwort' = Antwort(302, "admin_lieferanten")
       /\ UNCHANGED <<bestellungen, einstellungen, session, uhr, laufend, vorher_aktiv>>

\* The store calls of lieferant_aktivieren, in program order.
\* An activation that leaves the other suppliers' flags alone.
aktivieren_update_many_fehlt(L) == L
\* Line 232.
aktivieren_update_many(L) == update_many_aktiv_false(L)
\* Line 233.
aktivieren_update_one(L, lieferant_id) == update_one_aktiv_true(L, lieferant_id)
\* Line 235: aktiver, held by the one field read from it (None: no document).
aktivieren_find_one(L, lieferant_id) ==
    IF lieferant_id \in DOMAIN L THEN L[lieferant_id].whatsapp_nummer ELSE None
\* Lines 236-240.
aktivieren_upsert(E, nummer) == upsert(E, "whatsapp", [nummer |-> nummer])

\* POST /admin/lieferant/aktivieren/<lieferant_id>, handled without another
\* request in between.  aktiver.get on None raises AttributeError after the
\* two updates have been applied.
lieferant_aktivieren(s, lieferant_id) ==
    \/ /\ Abgewiesen("lieferant_aktivieren", "POST", s, lieferant_id)
    \/ /\ logged_in(s)
       /\ anfrage' = Anfrage("lieferant_aktivieren", "POST", s, lieferant_id)
       /\ vorher_aktiv' = AktiveLieferanten(lieferanten)
       /\ LET L1 == aktivieren_update_many(lieferanten)
              L2 == aktivieren_update_one(L1, lieferant_id)
              aktiver == aktivieren_find_one(L2, lieferant_id)
          IN  /\ lieferanten' = L2
              /\ IF aktiver = None
                 THEN /\ antwort' = Antwort(500, "AttributeError")
                      /\ UNCHANGED einstellungen
                 ELSE /\ einstellungen' = aktivieren_upsert(einstellungen, aktiver)
                      /\ antwort' = Antwort(302, "admin_lieferanten")
       /\ UNCHANGED <<bestellungen, session, zaehler, uhr, laufend>>

lieferant_loeschen(s, lieferant_id) ==
    \/ Abgewiesen("lieferant_loeschen", "POST", s, lieferant_id)
    \/ /\ logged_in(s)
       /\ anfrage' = Anfrage("lieferant_loeschen", "POST", s, lieferant_id)
       /\ lieferanten' = Ohne(lieferanten, lieferant_id)
       /\ antwort' = Antwort(302, "admin_lieferanten")
       /\ UNCHANGED <<bestellungen, einstellungen, session, zaehler, uhr, laufend, vorher_aktiv>>

lieferant_bearbeiten(s, methode, lieferant_id, versand_ok, whatsapp) ==
    \/ Abgewiesen("lieferant_bearbeiten", methode, s, lieferant_id)
    \/ /\ logged_in(s)
       /\ anfrage' = Anfrage("lieferant_bearbeiten", methode, s, lieferant_id)
       /\ IF lieferant_id \notin DOMAIN lieferanten
          THEN /\ antwort' = Antwort(404, "Lieferant nicht gefunden")
               /\ UNCHANGED lieferanten
          ELSE IF methode = "GET"
          THEN /\ antwort' = Antwort(200, "admin_lieferant_bearbeiten.html")
               /\ UNCHANGED lieferanten
          ELSE IF ~versand_ok
          THEN /\ antwort' = Antwort(500, "ValueError")
               /\ UNCHANGED lieferanten
          ELSE /\ lieferanten' = [lieferanten EXCEPT ![lieferant_id].whatsapp_nummer = whatsapp]
               /\ antwort' = Antwort(302, "admin_lieferanten")
       /\ UNCHANGED <<bestellungen, einstellungen, session, zaehler, uhr, laufend, vorher_aktiv>>

(***************************************************************************)
(* Ordering-window service.  A time text is the sequence of its            *)
(* characters; the None of a field that was not posted is <<None>>.        *)
(***************************************************************************)
KeinText == <<None>>
Ziffern == <<"0", "1", "2", "3", "4", "5", "6", "7", "8", "9">>

ist_ziffer(c) == \E i \in 1..Len(Ziffern) : Ziffern[i] = c
ziffer(c) == (CHOOSE i \in 1..Len(Ziffern) : Ziffern[i] = c) - 1
nur_ziffern(t) == \A i \in 1..Len(t) : ist_ziffer(t[i])
zahl(t) == IF Len(t) = 1 THEN ziffer(t[1]) ELSE 10 * ziffer(t[1]) + ziffer(t[2])

\* datetime.strptime(text, "%H:%M").time(), as seconds of the day.  %H takes
\* one or two digits up to 23, %M one or two digits up to 59, and the whole
\* text must be consumed; anything else raises (TypeError for None,
\* ValueError otherwise).
strptime(text) ==
    IF text = KeinText THEN [ok |-> FALSE, zeit |-> 0]
    ELSE LET n == Len(text)
             trenner == {p \in 2..3 : p < n /\ text[p] = ":"
                            /\ nur_ziffern(SubSeq(text, 1, p - 1))
                            /\ n - p <= 2
                            /\ nur_ziffern(SubSeq(text, p + 1, n))
                            /\ zahl(SubSeq(text, 1, p - 1)) <= 23
                            /\ zahl(SubSeq(text, p + 1, n)) <= 59}
         IN  IF trenner = {} THEN [ok |-> FALSE, zeit |-> 0]
             ELSE LET p == CHOOSE q \in trenner : TRUE
                  IN  [ok |-> TRUE,
                       zeit |-> zahl(SubSeq(text, 1, p - 1)) * 3600
                                + zahl(SubSeq(text, p + 1, n)) * 60]

\* A window that is open at both ends.
im_zeitfenster_offen(von_time, now, bis_time) == von_time < now /\ now < bis_time

\* von_time <= now <= bis_time
im_zeitfenster(von_time, now, bis_time) == von_time <= now /\ now <= bis_time

\* Lines 28-43 of bestellseite: the value of bestellbar.
bestellbar_um(E, now) ==
    IF "zeitfenster" \notin DOMAIN E THEN TRUE
    ELSE LET von == strptime(E["zeitfenster"].von)
             bis == strptime(E["zeitfenster"].bis)
         IN  IF von.ok /\ bis.ok THEN im_zeitfenster(von.zeit, now, bis.zeit)
             ELSE TRUE

\* GET /
bestellseite(s) ==
    /\ anfrage' = [Anfrage("bestellseite", "GET", s, 0) EXCEPT !.now = uhr]
    /\ antwort' = [Antwort(200, "bestellung.html") EXCEPT
                      !.bestellbar = bestellbar_um(einstellungen, uhr)]
    /\ UNCHANGED <<store, session, zaehler, uhr, laufend, vorher_aktiv>>

\* GET|POST /admin/zeitfenster.  The display name is stored and only rendered.
admin_zeitfenster(s, methode, von, bis) ==
    \/ Abgewiesen("admin_zeitfenster", methode, s, 0)
    \/ /\ logged_in(s)
       /\ anfrage' = Anfrage("admin_zeitfenster", methode, s, 0)
       /\ IF methode = "POST"
          THEN /\ einstellungen' = upsert(einstellungen, "zeitfenster", [von |-> von, bis |-> bis])
               /\ antwort' = Antwort(302, "admin_zeitfenster")
          ELSE /\ antwort' = Antwort(200, "admin_zeitfenster.html")
               /\ UNCHANGED einstellungen
       /\ UNCHANGED <<bestellungen, lieferanten, session, zaehler, uhr, laufend, vorher_aktiv>>

\* Instants datetime.now().time() is sampled at, in seconds of the day.
Sekunden(h, m, sek) == h * 3600 + m * 60 + sek
Uhrzeiten == {Sekunden(0, 0, 0), Sekunden(10, 59, 59), Sekunden(11, 0, 0), Sekunden(12, 0, 0),
              Sekunden(14, 0, 0), Sekunden(14, 0, 30), Sekunden(15, 0, 0)}

\* Time passes between requests (and wraps at midnight).
zeit_vergeht ==
    /\ uhr' \in Uhrzeiten \ {uhr}
    /\ UNCHANGED <<store, session, zaehler, laufend, anfrage, antwort, vorher_aktiv>>

\* Time texts a form posts: "HH:MM" of an hour and a minute, and others.
zeit_text(h, m) ==
    <<Ziffern[(h \div 10) + 1], Ziffern[(h % 10) + 1], ":",
      Ziffern[(m \div 10) + 1], Ziffern[(m % 10) + 1]>>
Zeitpunkte == {<<11, 0>>, <<14, 0>>}
WohlgeformteZeiten == {zeit_text(z[1], z[2]) : z \in Zeitpunkte}
\* One-digit fields, which %H and %M take as well.
EinstelligeZeit == <<"9", ":", "5">>
UnlesbareZeiten == {KeinText, <<"a", "b", "c">>, <<"2", "4", ":", "0", "0">>,
                    <<"1", "1", ":", "6", "0">>, <<"1", "1", "0", "0">>}
ZeitEingaben == WohlgeformteZeiten \cup UnlesbareZeiten \cup {EinstelligeZeit}

(***************************************************************************)
(* lieferant_aktivieren as an in-flight request of a worker: one step per  *)
(* store call, so that the calls of concurrent requests interleave.        *)
(***************************************************************************)
Frei == [pc |-> "frei", lieferant_id |-> 0, nummer |-> None]

\* Lines 229-232: the gate reads the request's own cookie, then update_many.
aktivieren_beginnt(w, s, lieferant_id) ==
    /\ laufend[w].pc = "frei"
    /\ \/ Abgewiesen("lieferant_aktivieren", "POST", s, lieferant_id)
       \/ /\ logged_in(s)
          /\ anfrage' = Anfrage("lieferant_aktivieren", "POST", s, lieferant_id)
          /\ vorher_aktiv' = AktiveLieferanten(lieferanten)
          /\ lieferanten' = aktivieren_update_many(lieferanten)
          /\ laufend' = [laufend EXCEPT ![w] =
                            [pc |-> "update_one", lieferant_id |-> lieferant_id, nummer |-> None]]
          /\ UNCHANGED <<bestellungen, einstellungen, session, zaehler, uhr, antwort>>

\* Line 233.
aktivieren_setzt_aktiv(w) ==
    /\ laufend[w].pc = "update_one"
    /\ lieferanten' = aktivieren_update_one(lieferanten, laufend[w].lieferant_id)
    /\ laufend' = [laufend EXCEPT ![w].pc = "find_one"]
    /\ UNCHANGED <<bestellungen, einstellungen, session, zaehler, uhr, anfrage, antwort, vorher_aktiv>>

\* Line 235, and the AttributeError of line 238 when nothing was found.
aktivieren_liest(w) ==
    /\ laufend[w].pc = "find_one"
    /\ LET aktiver == aktivieren_find_one(lieferanten, laufend[w].lieferant_id)
       IN  IF aktiver = None
           THEN /\ laufend' = [laufend EXCEPT ![w] = Frei]
                /\ antwort' = Antwort(500, "AttributeError")
           ELSE /\ laufend' = [laufend EXCEPT ![w].pc = "upsert", ![w].nummer = aktiver]
                /\ UNCHANGED antwort
    /\ UNCHANGED <<store, session, zaehler, uhr, anfrage, vorher_aktiv>>

\* Lines 236-242.
aktivieren_spiegelt(w) ==
    /\ laufend[w].pc = "upsert"
    /\ einstellungen' = aktivieren_upsert(einstellungen, laufend[w].nummer)
    /\ laufend' = [laufend EXCEPT ![w] = Frei]
    /\ antwort' = Antwort(302, "admin_lieferanten")
    /\ UNCHANGED <<bestellungen, lieferanten, session, zaehler, uhr, anfrage, vorher_aktiv>>

(***************************************************************************)
(* Specifications.                                                         *)
(***************************************************************************)
Init ==
    /\ bestellungen = <<>>
    /\ lieferanten = <<>>
    /\ einstellungen = <<>>
    /\ session = [s \in Sessions |-> FALSE]
    /\ zaehler = [lieferanten |-> 0, bestellungen |-> 0]
    /\ uhr = Sekunden(0, 0, 0)
    /\ laufend = [w \in Worker |-> Frei]
    /\ anfrage = Anfrage("-", "-", "-", 0)
    /\ antwort = Antwort(0, "-")
    /\ vorher_aktiv = {}

Methoden == {"GET", "POST"}

Anmeldung(S, B, P) ==
    \E s \in S :
        \/ admin_login(s, "GET", None, None)
        \/ \E b \in B, p \in P : admin_login(s, "POST", b, p)
        \/ admin_logout(s)

Bestelldienst(S, N, G, F, BE) ==
    \E s \in S :
        \/ \E d \in BOOLEAN, n \in N, g \in G : bestellung_absenden(s, d, n, g)
        \/ admin_bestellungen(s)
        \/ \E id \in BestellIds : bestellung_loeschen(s, id)
        \/ bestellungen_loeschen_alle(s)
        \/ \E m \in Methoden, id \in BestellIds, f \in F :
               bestellung_bearbeiten(s, m, id, "Anna", f)
        \/ \E id \in BestellIds, b \in BE :
               bestellung_zahlung_speichern(s, id, "on", b, None)

Lieferantenverwaltung(S, NU) ==
    \E s \in S :
        \/ \E m \in Methoden, v \in BOOLEAN, n \in NU : admin_lieferanten(s, m, v, n)
        \/ \E id \in LieferantIds : lieferant_loeschen(s, id)
        \/ \E m \in Methoden, id \in LieferantIds, v \in BOOLEAN, n \in NU :
               lieferant_bearbeiten(s, m, id, v, n)

Zeitfensterdienst(S, Z) ==
    \E s \in S :
        \/ bestellseite(s)
        \/ \E m \in Methoden, von \in Z, bis \in Z : admin_zeitfenster(s, m, von, bis)

\* Every route, one request at a time.
Next ==
    \/ Anmeldung(Sessions, Benutzer, Passwoerter)
    \/ Bestelldienst(Sessions, {"Anna"}, Listen({GerichtVoll}, 1), Listen({"ok"}, 1), {"10,50"})
    \/ Lieferantenverwaltung(Sessions, {"0151"})
    \/ \E s \in Sessions, id \in LieferantIds : lieferant_aktivieren(s, id)
    \/ Zeitfensterdienst(Sessions, {zeit_text(11, 0)})

Spec == Init /\ [][Next]_vars

\* The supplier routes, one request at a time.
NextLieferanten ==
    \/ Anmeldung({"s1"}, {"admin"}, {"geheim", "falsch"})
    \/ Lieferantenverwaltung({"s1"}, Nummern)
    \/ \E id \in LieferantIds : lieferant_aktivieren("s1", id)

SpecLieferanten == Init /\ [][NextLieferanten]_vars

\* The supplier routes with the store calls of activation requests interleaved.
NextNebenlaeufig ==
    \/ Anmeldung({"s1"}, {"admin"}, {"geheim"})
    \/ Lieferantenverwaltung({"s1"}, Nummern)
    \/ \E w \in Worker :
        \/ \E id \in LieferantIds : aktivieren_beginnt(w, "s1", id)
        \/ aktivieren_setzt_aktiv(w)
        \/ aktivieren_liest(w)
        \/ aktivieren_spiegelt(w)

SpecNebenlaeufig == Init /\ [][NextNebenlaeufig]_vars

\* The order routes, one request at a time.
NextBestellungen ==
    \/ Anmeldung({"s1"}, {"admin"}, {"geheim", "falsch"})
    \/ Bestelldienst({"s1"}, {"Anna", "", None}, Listen(GerichtEingaben, MaxGerichte),
                     Listen(FormularGruppen, MaxGerichte), BetragEingaben)

SpecBestellungen == Init /\ [][NextBestellungen]_vars

\* The ordering window, the clock and the public routes.
NextZeitfenster ==
    \/ Anmeldung({"s1"}, {"admin"}, {"geheim"})
    \/ Zeitfensterdienst({"s1"}, ZeitEingaben)
    \/ \E g \in Listen({GerichtVoll}, 1) : bestellung_absenden("s1", TRUE, "Anna", g)
    \/ zeit_vergeht

SpecZeitfenster == Init /\ [][NextZeitfenster]_vars

(***************************************************************************)
(* Properties.                                                             *)
(***************************************************************************)
GeschuetzteRouten ==
    {"admin_bestellungen", "bestellung_loeschen", "bestellungen_loeschen_alle",
     "bestellung_bearbeiten", "bestellung_zahlung_speichern", "admin_lieferanten",
     "lieferant_aktivieren", "lieferant_loeschen", "lieferant_bearbeiten",
     "admin_zeitfenster"}

\* C1: in every reachable state at most one supplier has aktiv=true, also
\* when the store calls of two activation requests interleave.
C1_HoechstensEinAktiver == Cardinality(AktiveLieferanten(lieferanten)) <= 1

\* C2: with a supplier A active, an authenticated lieferant_aktivieren(B)
\* for an existing B that runs without another request in between leaves B
\* as the only active supplier and the whatsapp settings document (created
\* if missing) holding B's whatsapp_nummer.
C2_AktivierenWechselt ==
    ( /\ anfrage.route = "lieferant_aktivieren"
      /\ antwort # ZumLogin
      /\ vorher_aktiv # {}
      /\ anfrage.ziel \in DOMAIN lieferanten )
    => /\ AktiveLieferanten(lieferanten) = {anfrage.ziel}
       /\ "whatsapp" \in DOMAIN einstellungen
       /\ einstellungen["whatsapp"].nummer = lieferanten[anfrage.ziel].whatsapp_nummer

\* Supplier 2 was activated while supplier 1 was the active one, and the
\* two have different numbers.
C2_Zeuge ==
    /\ anfrage.route = "lieferant_aktivieren"
    /\ anfrage.ziel = 2
    /\ antwort = Antwort(302, "admin_lieferanten")
    /\ vorher_aktiv = {1}
    /\ DOMAIN lieferanten = {1, 2}
    /\ lieferanten[1].whatsapp_nummer # lieferanten[2].whatsapp_nummer

\* C3: lieferant_aktivieren with an id that matches no supplier answers 404
\* and leaves every supplier's aktiv flag and the whatsapp settings
\* document as they were.
C3_UnbekannteIdNotFound ==
    [][ ( /\ anfrage'.route = "lieferant_aktivieren"
          /\ session[anfrage'.sitzung]
          /\ anfrage'.ziel \notin DOMAIN lieferanten )
        => /\ antwort'.status = 404
           /\ lieferanten' = lieferanten
           /\ einstellungen' = einstellungen ]_vars

\* C4: whenever some supplier has aktiv=true, the whatsapp settings
\* document holds that supplier's whatsapp_nummer, after any sequence of
\* completed supplier requests.
C4_WhatsappSpiegeltAktiven ==
    \A i \in AktiveLieferanten(lieferanten) :
        /\ "whatsapp" \in DOMAIN einstellungen
        /\ einstellungen["whatsapp"].nummer = lieferanten[i].whatsapp_nummer

\* C5: a request to a gated admin route from a session that is not logged
\* in is answered with the redirect to the login page and leaves the three
\* collections unchanged; the collections change only by the public order
\* submission or by a gated route called from a logged-in session.
C5_AdminNurMitSitzung ==
    [][ /\ ( anfrage'.route \in GeschuetzteRouten /\ ~session[anfrage'.sitzung] )
           => ( antwort' = ZumLogin /\ store' = store )
        /\ store' # store
           => \/ anfrage'.route = "bestellung_absenden"
              \/ anfrage'.route \in GeschuetzteRouten /\ session[anfrage'.sitzung] ]_vars

\* Delete-all was requested by a session that is not logged in, was
\* redirected, and the order is still there.
C5_Zeuge ==
    /\ anfrage.route = "bestellungen_loeschen_alle"
    /\ ~session[anfrage.sitzung]
    /\ antwort = ZumLogin
    /\ bestellungen # <<>>

GueltigeAnmeldung(a, s) ==
    /\ a.route = "admin_login" /\ a.methode = "POST" /\ a.sitzung = s
    /\ a.benutzer = "admin" /\ a.passwort = "geheim"

\* C8: a session's logged_in flag is unset or true; it becomes true only
\* by a POST to /admin with username "admin" and password "geheim"; any
\* other login attempt leaves the flag as it was; logout leaves it unset;
\* and while it is unset no gated route called from that session changes
\* the collections.
C8_SitzungsAutomat ==
    [][ \A s \in Sessions :
          /\ session'[s] \in BOOLEAN
          /\ ( ~session[s] /\ session'[s] ) => GueltigeAnmeldung(anfrage', s)
          /\ ( session[s] /\ ~session'[s] )
                => ( anfrage'.route = "admin_logout" /\ anfrage'.sitzung = s )
          /\ ( anfrage'.route = "admin_login" /\ ~GueltigeAnmeldung(anfrage', anfrage'.sitzung) )
                => session' = session
          /\ ( anfrage'.route = "admin_logout" /\ anfrage'.sitzung = s ) => ~session'[s]
          /\ ( ~session[s] /\ anfrage'.sitzung = s /\ anfrage'.route \in GeschuetzteRouten )
                => ( store' = store /\ ~session'[s] ) ]_vars

\* A supplier exists, so some session was logged in; now no session is,
\* and the last request, to a gated route, was turned away.
C8_Zeuge ==
    /\ lieferanten # <<>>
    /\ \A s \in Sessions : ~session[s]
    /\ anfrage.route = "lieferant_loeschen"
    /\ anfrage.ziel \in DOMAIN lieferanten
    /\ antwort = ZumLogin

GerichtVollstaendig(g) == GerichtVoll \subseteq g

\* C6: bestellung_absenden answers 400 and persists nothing whenever the
\* name is absent, the dish list is empty or a dish lacks nr, name or
\* preis, and persists an order only otherwise.
C6_AbsendenValidiert ==
    [][ \A s \in Sessions, d \in BOOLEAN, n \in {"Anna", "", None},
           g \in Listen(GerichtEingaben, MaxGerichte) :
          bestellung_absenden(s, d, n, g)
          => IF ~d \/ n = None \/ g = <<>> \/ \E i \in 1..Len(g) : ~GerichtVollstaendig(g[i])
             THEN antwort'.status = 400 /\ bestellungen' = bestellungen
             ELSE TRUE ]_vars

\* C7: every order of the collection has a non-empty gerichte list.
C7_GerichteNichtLeer ==
    \A id \in DOMAIN bestellungen : bestellungen[id].gerichte # <<>>

\* The readable time texts of the model with the hour and minute they
\* denote.
LesbareZeiten ==
    {<<zeit_text(z[1], z[2]), z>> : z \in Zeitpunkte} \cup {<<EinstelligeZeit, <<9, 5>>>>}

\* C9: bestellbar as bestellseite computes it.  Without a zeitfenster
\* document it is true; with von and bis readable as hour:minute it is
\* true exactly when von <= now <= bis, both bounds included and now taken
\* with its seconds; with von or bis missing or unreadable it is true.
C9_Bestellbar ==
    anfrage.route = "bestellseite" =>
        IF "zeitfenster" \notin DOMAIN einstellungen THEN antwort.bestellbar
        ELSE LET e == einstellungen["zeitfenster"]
             IN  /\ \A v \in LesbareZeiten, b \in LesbareZeiten :
                       ( e.von = v[1] /\ e.bis = b[1] )
                       => ( antwort.bestellbar <=>
                              ( Sekunden(v[2][1], v[2][2], 0) <= anfrage.now
                                /\ anfrage.now <= Sekunden(b[2][1], b[2][2], 0) ) )
                 /\ ( e.von \in UnlesbareZeiten \/ e.bis \in UnlesbareZeiten )
                       => antwort.bestellbar

\* The page was rendered at 14:00:00 sharp under the window 11:00-14:00
\* and shows ordering as open.
C9_Zeuge ==
    /\ anfrage.route = "bestellseite"
    /\ "zeitfenster" \in DOMAIN einstellungen
    /\ einstellungen["zeitfenster"] = [von |-> zeit_text(11, 0), bis |-> zeit_text(14, 0)]
    /\ anfrage.now = Sekunden(14, 0, 0)
    /\ antwort.bestellbar

\* C10: a public order submission made while a well-formed window is
\* configured and the current time lies outside it adds no order.
C10_NurImZeitfenster ==
    [][ ( /\ anfrage'.route = "bestellung_absenden"
          /\ "zeitfenster" \in DOMAIN einstellungen
          /\ \E v \in Zeitpunkte, b \in Zeitpunkte :
                /\ einstellungen["zeitfenster"].von = zeit_text(v[1], v[2])
                /\ einstellungen["zeitfenster"].bis = zeit_text(b[1], b[2])
                /\ ~( Sekunden(v[1], v[2], 0) <= uhr /\ uhr <= Sekunden(b[1], b[2], 0) ) )
        => bestellungen' = bestellungen ]_vars
====
